---------------------------- MODULE Spec2Model ----------------------------
(***************************************************************************)
(* Tic-tac-toe TUI (alfinsyahruddin/tictactoe-tui).                        *)
(*                                                                         *)
(* The model has three parts, all translated from src/src/main.rs:         *)
(*   - the rules engine   (get_game_result, get_available_moves, is_full,  *)
(*                         is_empty)                                       *)
(*   - the search engine  (get_best_move: exhaustive minimax with the      *)
(*                         root score -> indices map and the random        *)
(*                         tie-break)                                      *)
(*   - the application    (App::handle_key_event, play_as_computer,        *)
(*                         check_game_state)                               *)
(*                                                                         *)
(* The specifications share the variables:                                 *)
(*   Spec        the application driven by key events                      *)
(*   SearchSpec  get_best_move / play_as_computer applied to every board   *)
(*               with at most MaxEmpty empty cells                         *)
(*   RulesSpec   the rules engine applied to every 9-cell board            *)
(*   RotationSpec  the root search applied to a board and to its rotation  *)
(*   MirrorSpec  the minimizing root for a mark and the maximizing root    *)
(*               for the other mark applied to one board                   *)
(*   WalkSpec    get_best_move executed call by call, with its call stack  *)
(*               and the scratch map, on boards with at most MaxWalkEmpty  *)
(*               empty cells                                               *)
(*   WalkLiveSpec  the walk under weak fairness of its steps               *)
(***************************************************************************)
EXTENDS Integers, Sequences, FiniteSets, TLC

VARIABLES
    player,          \* App.player: the human's mark
    game_state,      \* App.game_state
    selected_index,  \* App.selected_index (u16)
    board,           \* App.board: Vec<Player> of length 9, indexed 0..8
    exit,            \* App.exit
    panicked,        \* the process has panicked (unwrap on None, index out of bounds)
    pc,              \* which specification / which function was applied
    call,            \* what the last handler or function call did (observation)
    stack,           \* the frames of the get_best_move calls in progress, the root first
    scratch_map      \* the HashMap handed to get_best_move by &mut (parameter nodes_map)

vars == <<player, game_state, selected_index, board, exit, panicked, pc, call, stack,
          scratch_map>>

-----------------------------------------------------------------------------
(* Values *)

\* enum Player { O, X, None }
X == "X"
O == "O"
None == "None"
Player == {O, X, None}
Marks == {O, X}

\* const BOARD_SIZE: u16 = 3
BOARD_SIZE == 3

\* the indices of a Board
Cells == 0 .. (BOARD_SIZE * BOARD_SIZE - 1)

\* every Vec<Player> of length 9
Boards == [Cells -> Player]

\* enum GameResult { Playing, Win(Player), Draw }
Playing == <<"Playing">>
Draw == <<"Draw">>
Win(p) == <<"Win", p>>

\* enum GameState { SelectPlayer, Playing, GameOver(GameResult) }
GS_SelectPlayer == <<"SelectPlayer">>
GS_Playing == <<"Playing">>
GS_GameOver(r) == <<"GameOver", r>>
IsGameOver(gs) == gs[1] = "GameOver"

\* Player::get_opponent
get_opponent(p) ==
    IF p = X THEN O
    ELSE IF p = O THEN X
    ELSE None

\* std::cmp::max / std::cmp::min
\* max that keeps its first argument
max_keeps_first(a, b) == a

max(a, b) == IF a >= b THEN a ELSE b
min(a, b) == IF a <= b THEN a ELSE b

\* how many cells of b hold p
Count(b, p) == Cardinality({i \in Cells : b[i] = p})

-----------------------------------------------------------------------------
(* Rules engine *)

\* App::get_empty_board
get_empty_board == [i \in Cells |-> None]

\* TicTacToe::is_empty: no cell differs from None
is_empty(b) == Cardinality({i \in Cells : b[i] # None}) = 0

\* is_full with the test of is_empty (x != None) left in place
is_full_copy_of_is_empty(b) == Cardinality({i \in Cells : b[i] # None}) = 0

\* TicTacToe::is_full: no cell equals None
is_full(b) == Cardinality({i \in Cells : b[i] = None}) = 0

\* get_available_moves counting the cells from 1
get_available_moves_one_based(b) ==
    SelectSeq([k \in 1 .. (BOARD_SIZE * BOARD_SIZE) |-> k], LAMBDA i : b[i - 1] = None)

\* get_available_moves with the filter inverted (x != None)
get_available_moves_occupied(b) ==
    SelectSeq([k \in 1 .. (BOARD_SIZE * BOARD_SIZE) |-> k - 1], LAMBDA i : b[i] # None)

\* TicTacToe::get_available_moves: the indices of the None cells, in the
\* order of enumerate()
get_available_moves(b) ==
    SelectSeq([k \in 1 .. (BOARD_SIZE * BOARD_SIZE) |-> k - 1], LAMBDA i : b[i] = None)

\* the line test with the comparison against the third cell left out
LineHeld_first_two(b, i, j, k) == b[i] # None /\ b[i] = b[j]

\* the line test without `!= Player::None`: three equal cells, marks or not
LineHeld_any_equal(b, i, j, k) == b[i] = b[j] /\ b[j] = b[k]

\* one line test of get_game_result: board[a] != None && board[a] == board[b] && board[a] == board[c]
LineHeld(b, i, j, k) == b[i] # None /\ b[i] = b[j] /\ b[i] = b[k]

\* get_game_result testing the rows bottom-up (6-7-8 first, 0-1-2 last)
get_game_result_last_row_first(b) ==
    IF is_empty(b) THEN Playing
    ELSE IF LineHeld(b, 6, 7, 8) THEN Win(b[6])
    ELSE IF LineHeld(b, 3, 4, 5) THEN Win(b[3])
    ELSE IF LineHeld(b, 0, 1, 2) THEN Win(b[0])
    ELSE IF LineHeld(b, 0, 3, 6) THEN Win(b[0])
    ELSE IF LineHeld(b, 1, 4, 7) THEN Win(b[1])
    ELSE IF LineHeld(b, 2, 5, 8) THEN Win(b[2])
    ELSE IF LineHeld(b, 0, 4, 8) THEN Win(b[0])
    ELSE IF LineHeld(b, 2, 4, 6) THEN Win(b[2])
    ELSE IF is_full(b) THEN Draw
    ELSE Playing

\* TicTacToe::get_game_result
get_game_result(b) ==
    IF is_empty(b) THEN Playing
    ELSE IF LineHeld(b, 0, 1, 2) THEN Win(b[0])
    ELSE IF LineHeld(b, 3, 4, 5) THEN Win(b[3])
    ELSE IF LineHeld(b, 6, 7, 8) THEN Win(b[6])
    ELSE IF LineHeld(b, 0, 3, 6) THEN Win(b[0])
    ELSE IF LineHeld(b, 1, 4, 7) THEN Win(b[1])
    ELSE IF LineHeld(b, 2, 5, 8) THEN Win(b[2])
    ELSE IF LineHeld(b, 0, 4, 8) THEN Win(b[0])
    ELSE IF LineHeld(b, 2, 4, 6) THEN Win(b[2])
    ELSE IF is_full(b) THEN Draw
    ELSE Playing

-----------------------------------------------------------------------------
(* Search engine *)

\* let max_depth = -1;
max_depth == -1

\* HashMap::new()
EmptyMap == << >>

\* HashMap::insert(k, v)
map_insert(m, k, v) == [x \in (DOMAIN m) \cup {k} |-> IF x = k THEN v ELSE m[x]]

\* terminal_value without the depth: every win 100, every loss -100
terminal_value_no_depth(result, p, depth) ==
    IF result = Win(p) THEN 100
    ELSE IF result = Win(get_opponent(p)) THEN -100
    ELSE 0

\* terminal_value scoring a win of either mark as a win
terminal_value_any_win(result, p, depth) ==
    IF result = Win(p) THEN 100 - depth
    ELSE IF result = Win(get_opponent(p)) THEN 100 - depth
    ELSE 0

\* the terminal branch of get_best_move: the heuristic value of a board that
\* is not Playing (or of any board at depth = max_depth)
terminal_value(result, p, depth) ==
    IF result = Win(p) THEN 100 - depth
    ELSE IF result = Win(get_opponent(p)) THEN -100 + depth
    ELSE 0

\* child_board placing the opponent's mark in both branches
child_board_opponent(b, p, is_maximizing, index) ==
    [b EXCEPT ![index] = get_opponent(p)]

\* the cell written in the loop body: board_2 = board.clone() with the mark of
\* the side to move at index (player when maximizing, its opponent otherwise)
child_board(b, p, is_maximizing, index) ==
    [b EXCEPT ![index] = IF is_maximizing THEN p ELSE get_opponent(p)]

\* best_of with the maximizing branch folding with min as the minimizing one does
best_of_always_min(is_maximizing, node_values) ==
    IF is_maximizing
    THEN CHOOSE v \in node_values \cup {-100} : \A w \in node_values \cup {-100} : v <= w
    ELSE CHOOSE v \in node_values \cup {100} : \A w \in node_values \cup {100} : v <= w

\* `best` after the loop: max (maximizing, from -100) or min (minimizing, from
\* 100) folded over the node values of the loop
best_of(is_maximizing, node_values) ==
    IF is_maximizing
    THEN CHOOSE v \in node_values \cup {-100} : \A w \in node_values \cup {-100} : v >= w
    ELSE CHOOSE v \in node_values \cup {100} : \A w \in node_values \cup {100} : v <= w

\* the elements of a sequence
Range(seq) == {seq[k] : k \in 1 .. Len(seq)}

\* The value get_best_move returns for a call that is not the root call
\* (depth # 0): the terminal value, or `best` of the loop over the available
\* moves.  The scratch map is written only under `if depth == 0`, and a call
\* at depth d recurses with d + 1, so such a call leaves nodes_map as it is.
RECURSIVE search_value(_, _, _, _)
search_value(b, p, is_maximizing, depth) ==
    LET result == get_game_result(b) IN
    IF result # Playing \/ depth = max_depth
    THEN terminal_value(result, p, depth)
    ELSE best_of(is_maximizing,
                 {search_value(child_board(b, p, is_maximizing, index), p,
                               ~is_maximizing, depth + 1)
                    : index \in Range(get_available_moves(b))})

\* record_move that replaces the list under node_value by the new index alone
record_move_overwrite(nodes_map, node_value, index) ==
    map_insert(nodes_map, node_value, <<index>>)

\* the depth == 0 bookkeeping inside the loop: nodes_map with index appended
\* to the list kept under node_value
record_move(nodes_map, node_value, index) ==
    map_insert(nodes_map, node_value,
               IF node_value \in DOMAIN nodes_map
               THEN Append(nodes_map[node_value], index)
               ELSE <<index>>)

\* nodes_map after the root loop has run over moves[k..]; node_values is the
\* set of <<index, node_value>> pairs of the loop
RECURSIVE root_loop(_, _, _, _)
root_loop(moves, node_values, k, nodes_map) ==
    IF k > Len(moves) THEN nodes_map
    ELSE LET nv == CHOOSE x \in node_values : x[1] = moves[k]
         IN root_loop(moves, node_values, k + 1, record_move(nodes_map, nv[2], moves[k]))

\* root_return handing back `best` itself, as the recursive calls do
root_return_best(nodes_map, best) == {best}

\* root_return without the random choice: always the first index of the list
root_return_first(nodes_map, best) ==
    IF best \notin DOMAIN nodes_map THEN {}
    ELSE {nodes_map[best][1]}

\* the root return: the values `moves.iter().choose(rng)` / `moves[0]` can give;
\* the empty set when nodes_map.get(&best).unwrap() panics
root_return(nodes_map, best) ==
    IF best \notin DOMAIN nodes_map THEN {}
    ELSE LET moves == nodes_map[best] IN
         IF Len(moves) > 1 THEN Range(moves)
         ELSE {moves[1]}

\* TicTacToe::get_best_move(board, player, is_maximizing, depth, nodes_map).
\* The result is <<values, nodes_map>>: the set of values the call can return
\* (one value, except for the random tie-break of the root; none when the
\* unwrap panics) and the scratch map as the call leaves it.
get_best_move(b, p, is_maximizing, depth, nodes_map) ==
    LET result == get_game_result(b) IN
    IF result # Playing \/ depth = max_depth
    THEN <<{terminal_value(result, p, depth)}, nodes_map>>
    ELSE IF depth # 0
    THEN <<{search_value(b, p, is_maximizing, depth)}, nodes_map>>
    ELSE LET moves == get_available_moves(b)
             node_values == {<<index, search_value(child_board(b, p, is_maximizing, index),
                                                   p, ~is_maximizing, depth + 1)>>
                               : index \in Range(moves)}
             best == best_of(is_maximizing, {nv[2] : nv \in node_values})
             nodes_map_2 == root_loop(moves, node_values, 1, nodes_map)
         IN <<root_return(nodes_map_2, best), nodes_map_2>>

-----------------------------------------------------------------------------
(* Application *)

\* `as usize` applied to an i32: a negative value wraps.  The build's usize is
\* 64 bits wide; the model keeps 2^30 as the modulus, which orders every i32
\* the search can return (-100 .. 100) against board.len() as 2^64 does.
USIZE_MODULUS == 2 ^ 30
as_usize_signed(v) == v
as_usize(v) == v % USIZE_MODULUS

\* u16::saturating_sub
saturating_sub(a, d) == IF a >= d THEN a - d ELSE 0

\* no function call observed in the last step
NoCall == [fn |-> "none"]

\* the part of App::play_as_computer after the is_full guard: the root search,
\* the cast of its result and the bound check `index <= self.board.len()`.
\* The result is the set of outcomes [board, searched, value, panicked]:
\* `searched` tells whether get_best_move was invoked, `value` is the i32 it
\* returned, `panicked` whether the process panicked (the unwrap inside the
\* search, or board[index] with index = board.len()).
search_and_place(b, p) ==
    LET r == get_best_move(b, get_opponent(p), TRUE, 0, EmptyMap) IN
    IF r[1] = {}
    THEN {[board |-> b, searched |-> TRUE, value |-> 0, panicked |-> TRUE]}
    ELSE {LET index == as_usize(v) IN
          IF index <= Cardinality(DOMAIN b)
          THEN IF index \in DOMAIN b
               THEN [board |-> [b EXCEPT ![index] = get_opponent(p)],
                     searched |-> TRUE, value |-> v, panicked |-> FALSE]
               ELSE [board |-> b, searched |-> TRUE, value |-> v, panicked |-> TRUE]
          ELSE [board |-> b, searched |-> TRUE, value |-> v, panicked |-> FALSE]
          : v \in r[1]}

\* play_as_computer without the is_full guard
play_as_computer_unguarded(b, p) == search_and_place(b, p)

\* App::play_as_computer on board b with the human's mark p
play_as_computer(b, p) ==
    IF is_full(b)
    THEN {[board |-> b, searched |-> FALSE, value |-> 0, panicked |-> FALSE]}
    ELSE search_and_place(b, p)

\* check_game_state that ends the game on a win only, not on a draw
check_game_state_only_wins(b, gs) ==
    LET result == get_game_result(b) IN
    IF result # Playing /\ result # Draw THEN GS_GameOver(result) ELSE gs

\* App::check_game_state: the game_state it leaves for board b
check_game_state(b, gs) ==
    LET result == get_game_result(b) IN
    IF result # Playing THEN GS_GameOver(result) ELSE gs

\* KeyCode::Left without the clamp to the start of the row
move_left_unclamped(i) == saturating_sub(i, 1)

\* the arrow keys of handle_key_event in GameState::Playing
move_left(i) ==
    IF i \in 0 .. 2 THEN max(0, saturating_sub(i, 1))
    ELSE IF i \in 3 .. 5 THEN max(3, saturating_sub(i, 1))
    ELSE IF i \in 6 .. 8 THEN max(6, saturating_sub(i, 1))
    ELSE i

move_right(i) ==
    IF i \in 0 .. 2 THEN min(2, i + 1)
    ELSE IF i \in 3 .. 5 THEN min(5, i + 1)
    ELSE IF i \in 6 .. 8 THEN min(8, i + 1)
    ELSE i

move_up(i) ==
    IF i % BOARD_SIZE = 0 THEN max(0, saturating_sub(i, BOARD_SIZE))
    ELSE IF i % BOARD_SIZE = 1 THEN max(1, saturating_sub(i, BOARD_SIZE))
    ELSE IF i % BOARD_SIZE = 2 THEN max(2, saturating_sub(i, BOARD_SIZE))
    ELSE i

move_down(i) ==
    IF i % BOARD_SIZE = 0 THEN min(6, i + BOARD_SIZE)
    ELSE IF i % BOARD_SIZE = 1 THEN min(7, i + BOARD_SIZE)
    ELSE IF i % BOARD_SIZE = 2 THEN min(8, i + BOARD_SIZE)
    ELSE i

\* the key codes handle_key_event tells apart ("other" is any other key)
KeyCodes == {"q", "s", "r", "Left", "Right", "Up", "Down", "Enter", "other"}

\* 's' that resets the board but leaves the cursor where it is
restart_or_reselect_keep_cursor(key) ==
    IF game_state = GS_Playing \/ IsGameOver(game_state)
    THEN IF key = "s" THEN <<GS_SelectPlayer, selected_index, get_empty_board>>
         ELSE IF key = "r" THEN <<GS_Playing, 0, get_empty_board>>
         ELSE <<game_state, selected_index, board>>
    ELSE <<game_state, selected_index, board>>

\* the first match of handle_key_event: 's' and 'r' in Playing / GameOver.
\* The result is <<game_state, selected_index, board>> after it.
restart_or_reselect(key) ==
    IF game_state = GS_Playing \/ IsGameOver(game_state)
    THEN IF key = "s" THEN <<GS_SelectPlayer, 0, get_empty_board>>
         ELSE IF key = "r" THEN <<GS_Playing, 0, get_empty_board>>
         ELSE <<game_state, selected_index, board>>
    ELSE <<game_state, selected_index, board>>

\* KeyCode::Enter in GameState::Playing
enter_playing(gs, sel, b) ==
    IF b[sel] = None
    THEN LET b_2 == [b EXCEPT ![sel] = player] IN
         \E o \in play_as_computer(b_2, player) :
            /\ board' = o.board
            /\ panicked' = o.panicked
            /\ game_state' = IF o.panicked THEN gs ELSE check_game_state(o.board, gs)
            /\ call' = [fn |-> "play_as_computer", board |-> b_2,
                        searched |-> o.searched, value |-> o.value]
            /\ selected_index' = sel
            /\ UNCHANGED player
    ELSE /\ board' = b
         /\ game_state' = gs
         /\ selected_index' = sel
         /\ call' = NoCall
         /\ UNCHANGED <<player, panicked>>

\* handle_key_event whose GameState::Playing arm is also taken in GameOver
handle_key_event_game_over_plays(key) ==
    /\ pc = "app"
    /\ UNCHANGED <<stack, scratch_map>>
    /\ ~exit
    /\ ~panicked
    /\ UNCHANGED pc
    /\ IF key = "q"
       THEN /\ exit' = TRUE
            /\ call' = NoCall
            /\ UNCHANGED <<player, game_state, selected_index, board, panicked>>
       ELSE LET s1 == restart_or_reselect(key)
                gs == s1[1]
                sel == s1[2]
                b == s1[3]
            IN /\ UNCHANGED exit
               /\ IF gs = GS_SelectPlayer
                  THEN /\ player' = IF key = "Left" THEN O
                                    ELSE IF key = "Right" THEN X
                                    ELSE player
                       /\ game_state' = IF key = "Enter" THEN GS_Playing ELSE gs
                       /\ selected_index' = sel
                       /\ board' = b
                       /\ call' = NoCall
                       /\ UNCHANGED panicked
                  ELSE IF gs = GS_Playing \/ IsGameOver(gs)
                  THEN IF key = "Enter"
                       THEN enter_playing(gs, sel, b)
                       ELSE /\ selected_index' =
                                 IF key = "Left" THEN move_left(sel)
                                 ELSE IF key = "Right" THEN move_right(sel)
                                 ELSE IF key = "Up" THEN move_up(sel)
                                 ELSE IF key = "Down" THEN move_down(sel)
                                 ELSE sel
                            /\ game_state' = gs
                            /\ board' = b
                            /\ call' = NoCall
                            /\ UNCHANGED <<player, panicked>>
                  ELSE /\ game_state' = gs
                       /\ selected_index' = sel
                       /\ board' = b
                       /\ call' = NoCall
                       /\ UNCHANGED <<player, panicked>>

\* App::handle_key_event
handle_key_event(key) ==
    /\ pc = "app"
    /\ UNCHANGED <<stack, scratch_map>>
    /\ ~exit
    /\ ~panicked
    /\ UNCHANGED pc
    /\ IF key = "q"
       THEN /\ exit' = TRUE
            /\ call' = NoCall
            /\ UNCHANGED <<player, game_state, selected_index, board, panicked>>
       ELSE LET s1 == restart_or_reselect(key)
                gs == s1[1]
                sel == s1[2]
                b == s1[3]
            IN /\ UNCHANGED exit
               /\ IF gs = GS_SelectPlayer
                  THEN /\ player' = IF key = "Left" THEN O
                                    ELSE IF key = "Right" THEN X
                                    ELSE player
                       /\ game_state' = IF key = "Enter" THEN GS_Playing ELSE gs
                       /\ selected_index' = sel
                       /\ board' = b
                       /\ call' = NoCall
                       /\ UNCHANGED panicked
                  ELSE IF gs = GS_Playing
                  THEN IF key = "Enter"
                       THEN enter_playing(gs, sel, b)
                       ELSE /\ selected_index' =
                                 IF key = "Left" THEN move_left(sel)
                                 ELSE IF key = "Right" THEN move_right(sel)
                                 ELSE IF key = "Up" THEN move_up(sel)
                                 ELSE IF key = "Down" THEN move_down(sel)
                                 ELSE sel
                            /\ game_state' = gs
                            /\ board' = b
                            /\ call' = NoCall
                            /\ UNCHANGED <<player, panicked>>
                  ELSE /\ game_state' = gs
                       /\ selected_index' = sel
                       /\ board' = b
                       /\ call' = NoCall
                       /\ UNCHANGED <<player, panicked>>

KeyQ == handle_key_event("q")
KeyS == handle_key_event("s")
KeyR == handle_key_event("r")
KeyLeft == handle_key_event("Left")
KeyRight == handle_key_event("Right")
KeyUp == handle_key_event("Up")
KeyDown == handle_key_event("Down")
KeyEnter == handle_key_event("Enter")
KeyOther == handle_key_event("other")

\* App::new
Init ==
    /\ player = O
    /\ game_state = GS_SelectPlayer
    /\ selected_index = 0
    /\ board = get_empty_board
    /\ exit = FALSE
    /\ panicked = FALSE
    /\ pc = "app"
    /\ call = NoCall
    /\ stack = << >>
    /\ scratch_map = EmptyMap

\* App::run: one key press per step
Next ==
    \/ KeyQ
    \/ KeyS
    \/ KeyR
    \/ KeyLeft
    \/ KeyRight
    \/ KeyUp
    \/ KeyDown
    \/ KeyEnter
    \/ KeyOther

Spec == Init /\ [][Next]_vars

-----------------------------------------------------------------------------
(* The search engine and play_as_computer applied to boards *)

\* the boards of SearchSpec have at most MaxEmpty empty cells
MaxEmpty == 4

SearchBoards == {b \in Boards : Count(b, None) <= MaxEmpty}

\* the boards of alternating play: the counts of the two marks differ by at
\* most one
Alternating(S) == {b \in S : Count(b, X) - Count(b, O) \in {-1, 0, 1}}

\* every board of SearchBoards, those of alternating play first
SearchInit ==
    /\ pc = "search_input"
    /\ \/ board \in Alternating(SearchBoards)
       \/ board \in SearchBoards \ Alternating(SearchBoards)
    /\ player \in Marks
    /\ game_state = GS_Playing
    /\ selected_index = 0
    /\ exit = FALSE
    /\ panicked = FALSE
    /\ call = NoCall
    /\ stack = << >>
    /\ scratch_map = EmptyMap

\* the root call get_best_move(&board, player.get_opponent(), is_maximizing, 0,
\* &mut HashMap::new()): main.rs calls it with is_maximizing = true,
\* tictactoe_cli.rs with false
CallGetBestMove(is_maximizing) ==
    /\ pc = "search_input"
    /\ UNCHANGED <<stack, scratch_map>>
    /\ pc' = "search_done"
    /\ LET r == get_best_move(board, get_opponent(player), is_maximizing, 0, EmptyMap) IN
       IF r[1] = {}
       THEN /\ panicked' = TRUE
            /\ call' = [fn |-> "get_best_move", board |-> board, player |-> get_opponent(player),
                        is_maximizing |-> is_maximizing, values |-> r[1], nodes_map |-> r[2]]
       ELSE \E v \in r[1] :
            /\ panicked' = FALSE
            /\ call' = [fn |-> "get_best_move", board |-> board, player |-> get_opponent(player),
                        is_maximizing |-> is_maximizing, values |-> r[1], nodes_map |-> r[2],
                        value |-> v]
    /\ UNCHANGED <<player, game_state, selected_index, board, exit>>

CallGetBestMoveMax == CallGetBestMove(TRUE)

\* self.play_as_computer() on the board
CallPlayAsComputer ==
    /\ pc = "search_input"
    /\ UNCHANGED <<stack, scratch_map>>
    /\ pc' = "search_done"
    /\ \E o \in play_as_computer(board, player) :
          /\ board' = o.board
          /\ panicked' = o.panicked
          /\ call' = [fn |-> "play_as_computer", board |-> board,
                      searched |-> o.searched, value |-> o.value]
    /\ UNCHANGED <<player, game_state, selected_index, exit>>

SearchNext ==
    \/ CallGetBestMoveMax
    \/ CallPlayAsComputer

SearchSpec == SearchInit /\ [][SearchNext]_vars

-----------------------------------------------------------------------------
(* The root search applied to a board and to its rotation by 90 degrees *)

\* the cell that cell i (row i \div 3, column i % 3) goes to when the board is
\* turned by 90 degrees clockwise: row = old column, column = 2 - old row
RotateIndex(i) == BOARD_SIZE * (i % BOARD_SIZE) + ((BOARD_SIZE - 1) - (i \div BOARD_SIZE))

\* the board turned by 90 degrees clockwise
Rotate(b) == [j \in Cells |-> b[CHOOSE i \in Cells : RotateIndex(i) = j]]

\* every board of SearchBoards, those of alternating play first
RotationInit ==
    /\ pc = "rotation_input"
    /\ \/ board \in Alternating(SearchBoards)
       \/ board \in SearchBoards \ Alternating(SearchBoards)
    /\ player \in Marks
    /\ game_state = GS_Playing
    /\ selected_index = 0
    /\ exit = FALSE
    /\ panicked = FALSE
    /\ call = NoCall
    /\ stack = << >>
    /\ scratch_map = EmptyMap

\* the maximizing root call get_best_move(&board, player.get_opponent(), true,
\* 0, &mut HashMap::new()) made once for the board and once for its rotation,
\* each with a fresh map
CallGetBestMoveRotated ==
    /\ pc = "rotation_input"
    /\ UNCHANGED <<stack, scratch_map>>
    /\ pc' = "rotation_done"
    /\ \E r \in {get_best_move(board, get_opponent(player), TRUE, 0, EmptyMap)} :
       \E r_rotated \in {get_best_move(Rotate(board), get_opponent(player), TRUE, 0, EmptyMap)} :
          /\ panicked' = (r[1] = {} \/ r_rotated[1] = {})
          /\ call' = [fn |-> "get_best_move_rotated", board |-> board,
                      player |-> get_opponent(player),
                      values |-> r[1], nodes_map |-> r[2],
                      rotated_board |-> Rotate(board),
                      rotated_values |-> r_rotated[1], rotated_nodes_map |-> r_rotated[2]]
    /\ UNCHANGED <<player, game_state, selected_index, board, exit>>

RotationNext == CallGetBestMoveRotated

RotationSpec == RotationInit /\ [][RotationNext]_vars

-----------------------------------------------------------------------------
(* get_best_move executed call by call *)

\* the largest number of empty cells of a board handed to the walk
MaxWalkEmpty == 3

WalkBoards == Alternating({b \in Boards : Count(b, None) <= MaxWalkEmpty})

\* the frame of a call that has just been entered: its parameters player,
\* is_maximizing and depth; the locals available_moves (moves, with the loop
\* position k), best, board_2 and node_value are not assigned yet
Frame(p, is_maximizing, depth) ==
    [player |-> p, is_maximizing |-> is_maximizing, depth |-> depth, at |-> "entry",
     moves |-> << >>, k |-> 0, best |-> 0, board_2 |-> get_empty_board, node_value |-> 0]

\* the board the parameter `board: &Board` of frame i refers to: the caller's
\* board for the root call, the caller's board_2 for a recursive call
FrameBoard(i) == IF i = 1 THEN board ELSE stack[i - 1].board_2

\* the placement of the loop body written on the board itself, with no clone
place_without_clone(b, p, is_maximizing, index) ==
    [board |-> child_board(b, p, is_maximizing, index),
     board_2 |-> child_board(b, p, is_maximizing, index)]

\* `let mut board_2 = board.clone(); board_2[index] = ...`: the board referred
\* to and the local board_2 after the two statements
clone_and_place(b, p, is_maximizing, index) ==
    [board |-> b, board_2 |-> child_board(b, p, is_maximizing, index)]

\* a board with at most MaxWalkEmpty empty cells, either mark as the human's
WalkInit ==
    /\ pc = "walk_input"
    /\ board \in WalkBoards
    /\ player \in Marks
    /\ game_state = GS_Playing
    /\ selected_index = 0
    /\ exit = FALSE
    /\ panicked = FALSE
    /\ call = NoCall
    /\ stack = << >>
    /\ scratch_map = EmptyMap

\* the root call get_best_move(&board, player.get_opponent(), is_maximizing, 0,
\* &mut nodes_map) with a fresh map.  call keeps the arguments and, in ret, the
\* last `return` executed by any call of the walk.
WalkCall(is_maximizing) ==
    /\ pc = "walk_input"
    /\ pc' = "walk"
    /\ stack' = <<Frame(get_opponent(player), is_maximizing, 0)>>
    /\ scratch_map' = EmptyMap
    /\ call' = [fn |-> "get_best_move", board |-> board, player |-> get_opponent(player),
                is_maximizing |-> is_maximizing, ret |-> [kind |-> "none"]]
    /\ UNCHANGED <<player, game_state, selected_index, board, exit, panicked>>

WalkCallMax == WalkCall(TRUE)

WalkCallMin == WalkCall(FALSE)

\* `return v` of the innermost call: its frame is popped; the root call leaves
\* the stack empty, a recursive call leaves v in node_value of its caller
Return(v, kind) ==
    LET n == Len(stack) IN
    /\ call' = [call EXCEPT !.ret = [kind |-> kind, value |-> v, board |-> FrameBoard(n),
                                     player |-> stack[n].player, depth |-> stack[n].depth,
                                     is_maximizing |-> stack[n].is_maximizing]]
    /\ IF n = 1
       THEN /\ stack' = << >>
            /\ pc' = "walk_done"
       ELSE /\ stack' = [SubSeq(stack, 1, n - 1) EXCEPT
                            ![n - 1] = [stack[n - 1] EXCEPT !.at = "returned",
                                                              !.node_value = v]]
            /\ pc' = pc

\* the terminal test at the entry of a call succeeds: return the heuristic value
WalkTerminal ==
    /\ pc = "walk"
    /\ stack # << >>
    /\ LET n == Len(stack)
           top == stack[n]
           result == get_game_result(FrameBoard(n))
       IN /\ top.at = "entry"
          /\ result # Playing \/ top.depth = max_depth
          /\ Return(terminal_value(result, top.player, top.depth), "terminal")
    /\ UNCHANGED <<player, game_state, selected_index, board, exit, panicked, scratch_map>>

\* the terminal test fails: best and available_moves are initialised
WalkBegin ==
    /\ pc = "walk"
    /\ stack # << >>
    /\ LET n == Len(stack)
           top == stack[n]
           result == get_game_result(FrameBoard(n))
       IN /\ top.at = "entry"
          /\ ~(result # Playing \/ top.depth = max_depth)
          /\ stack' = [stack EXCEPT ![n] =
                          [top EXCEPT !.at = "loop",
                                      !.best = IF top.is_maximizing THEN -100 ELSE 100,
                                      !.moves = get_available_moves(FrameBoard(n)),
                                      !.k = 1]]
    /\ UNCHANGED <<player, game_state, selected_index, board, exit, panicked, pc, call,
                   scratch_map>>

\* one pass of the loop up to the recursive call: clone, place, call
WalkRecurse ==
    /\ pc = "walk"
    /\ stack # << >>
    /\ LET n == Len(stack)
           top == stack[n]
       IN /\ top.at = "loop"
          /\ top.k <= Len(top.moves)
          /\ LET cp == clone_and_place(FrameBoard(n), top.player, top.is_maximizing,
                                       top.moves[top.k])
                 caller == [top EXCEPT !.board_2 = cp.board_2]
                 callee == Frame(top.player, ~top.is_maximizing, top.depth + 1)
             IN IF n = 1
                THEN /\ board' = cp.board
                     /\ stack' = <<caller, callee>>
                ELSE /\ board' = board
                     /\ stack' = SubSeq(stack, 1, n - 2)
                                 \o <<[stack[n - 1] EXCEPT !.board_2 = cp.board], caller, callee>>
    /\ UNCHANGED <<player, game_state, selected_index, exit, panicked, pc, call, scratch_map>>

\* the rest of the pass, after the recursive call has returned node_value:
\* best is updated, the root (depth 0) records the index under node_value in
\* the map, and the loop goes on to the next index
WalkAfterCall ==
    /\ pc = "walk"
    /\ stack # << >>
    /\ LET n == Len(stack)
           top == stack[n]
       IN /\ top.at = "returned"
          /\ stack' = [stack EXCEPT ![n] =
                          [top EXCEPT !.at = "loop",
                                      !.best = IF top.is_maximizing
                                               THEN max(top.best, top.node_value)
                                               ELSE min(top.best, top.node_value),
                                      !.k = top.k + 1]]
          /\ scratch_map' = IF top.depth = 0
                            THEN record_move(scratch_map, top.node_value, top.moves[top.k])
                            ELSE scratch_map
    /\ UNCHANGED <<player, game_state, selected_index, board, exit, panicked, pc, call>>

\* the loop is over: the root looks best up in the map (unwrap) and returns one
\* of the indices stored under it; a recursive call returns best
WalkReturn ==
    /\ pc = "walk"
    /\ stack # << >>
    /\ LET n == Len(stack)
           top == stack[n]
       IN /\ top.at = "loop"
          /\ top.k > Len(top.moves)
          /\ IF top.depth = 0
             THEN IF root_return(scratch_map, top.best) = {}
                  THEN /\ panicked' = TRUE
                       /\ pc' = "walk_done"
                       /\ call' = [call EXCEPT !.ret = [kind |-> "panic"]]
                       /\ UNCHANGED stack
                  ELSE /\ \E v \in root_return(scratch_map, top.best) : Return(v, "index")
                       /\ UNCHANGED panicked
             ELSE /\ Return(top.best, "best")
                  /\ UNCHANGED panicked
    /\ UNCHANGED <<player, game_state, selected_index, board, exit, scratch_map>>

WalkNext ==
    \/ WalkCallMax
    \/ WalkCallMin
    \/ WalkTerminal
    \/ WalkBegin
    \/ WalkRecurse
    \/ WalkAfterCall
    \/ WalkReturn

WalkSpec == WalkInit /\ [][WalkNext]_vars

\* the walk started with the human playing O (the automated side X; the walk
\* with the marks exchanged is the same walk under the renaming)
WalkLiveInit == WalkInit /\ player = O

\* the walk is a single thread of control that runs until the root call returns:
\* a step that can be taken is taken
WalkLiveSpec == WalkLiveInit /\ [][WalkNext]_vars /\ WF_vars(WalkNext)

-----------------------------------------------------------------------------
(* The minimizing root and the maximizing root of the other side *)

\* every board of SearchBoards, those of alternating play first
MirrorInit ==
    /\ pc = "mirror_input"
    /\ \/ board \in Alternating(SearchBoards)
       \/ board \in SearchBoards \ Alternating(SearchBoards)
    /\ player \in Marks
    /\ game_state = GS_Playing
    /\ selected_index = 0
    /\ exit = FALSE
    /\ panicked = FALSE
    /\ call = NoCall
    /\ stack = << >>
    /\ scratch_map = EmptyMap

\* the two root calls on one board, each with a fresh map:
\* get_best_move(&board, player, false, 0, ..) as in tictactoe_cli.rs and
\* get_best_move(&board, player.get_opponent(), true, 0, ..) as in
\* play_as_computer
CallGetBestMoveBothSides ==
    /\ pc = "mirror_input"
    /\ pc' = "mirror_done"
    /\ \E r_min \in {get_best_move(board, player, FALSE, 0, EmptyMap)} :
       \E r_max \in {get_best_move(board, get_opponent(player), TRUE, 0, EmptyMap)} :
          /\ panicked' = (r_min[1] = {} \/ r_max[1] = {})
          /\ call' = [fn |-> "get_best_move_both_sides", board |-> board,
                      min_player |-> player,
                      min_values |-> r_min[1], min_nodes_map |-> r_min[2],
                      max_player |-> get_opponent(player),
                      max_values |-> r_max[1], max_nodes_map |-> r_max[2]]
    /\ UNCHANGED <<player, game_state, selected_index, board, exit, stack, scratch_map>>

MirrorNext == CallGetBestMoveBothSides

MirrorSpec == MirrorInit /\ [][MirrorNext]_vars

-----------------------------------------------------------------------------
(* The rules engine applied to every board *)

\* every board, those of alternating play first
RulesInit ==
    /\ pc = "rules_input"
    /\ \/ board \in Alternating(Boards)
       \/ board \in Boards \ Alternating(Boards)
    /\ player = O
    /\ game_state = GS_Playing
    /\ selected_index = 0
    /\ exit = FALSE
    /\ panicked = FALSE
    /\ call = NoCall
    /\ stack = << >>
    /\ scratch_map = EmptyMap

\* TicTacToe::get_game_result(&board)
CallGetGameResult ==
    /\ pc = "rules_input"
    /\ UNCHANGED <<stack, scratch_map>>
    /\ pc' = "rules_done"
    /\ call' = [fn |-> "get_game_result", board |-> board, result |-> get_game_result(board)]
    /\ UNCHANGED <<player, game_state, selected_index, board, exit, panicked>>

\* TicTacToe::get_available_moves(&board)
CallGetAvailableMoves ==
    /\ pc = "rules_input"
    /\ UNCHANGED <<stack, scratch_map>>
    /\ pc' = "rules_done"
    /\ call' = [fn |-> "get_available_moves", board |-> board,
                result |-> get_available_moves(board)]
    /\ UNCHANGED <<player, game_state, selected_index, board, exit, panicked>>

\* TicTacToe::is_full(&board)
CallIsFull ==
    /\ pc = "rules_input"
    /\ UNCHANGED <<stack, scratch_map>>
    /\ pc' = "rules_done"
    /\ call' = [fn |-> "is_full", board |-> board, result |-> is_full(board)]
    /\ UNCHANGED <<player, game_state, selected_index, board, exit, panicked>>

\* TicTacToe::is_empty(&board)
CallIsEmpty ==
    /\ pc = "rules_input"
    /\ UNCHANGED <<stack, scratch_map>>
    /\ pc' = "rules_done"
    /\ call' = [fn |-> "is_empty", board |-> board, result |-> is_empty(board)]
    /\ UNCHANGED <<player, game_state, selected_index, board, exit, panicked>>

RulesNext ==
    \/ CallGetGameResult
    \/ CallGetAvailableMoves
    \/ CallIsFull
    \/ CallIsEmpty

RulesSpec == RulesInit /\ [][RulesNext]_vars

-----------------------------------------------------------------------------
(* Vocabulary of the properties *)

\* the 8 lines of the board
WinLines == {{0, 1, 2}, {3, 4, 5}, {6, 7, 8}, {0, 3, 6}, {1, 4, 7}, {2, 5, 8}, {0, 4, 8}, {2, 4, 6}}

\* mark m occupies all three cells of some line of b
HoldsLine(b, m) == \E l \in WinLines : \A i \in l : b[i] = m

\* the empty cells of b
EmptyCells(b) == {i \in Cells : b[i] = None}

\* placing m on the empty cell c of b completes a line for m
CompletesLine(b, m, c) ==
    /\ b[c] = None
    /\ \E l \in WinLines : c \in l /\ \A i \in l \ {c} : b[i] = m

\* the step was a root call of get_best_move with is_maximizing = true
RootMaxCall == pc = "search_done" /\ call.fn = "get_best_move" /\ call.is_maximizing

\* the step was a call of play_as_computer (from Enter in Spec, applied to a
\* board in SearchSpec)
ComputerCall == call.fn = "play_as_computer"

-----------------------------------------------------------------------------
(* C1 *)

\* C1: never beaten.  With the human moving first and the automated player
\* answering every placement with any value the root search can return, no
\* reachable board is classified Win(human mark) and game_state is never
\* GameOver(Win(human mark)).
C1_NeverBeaten ==
    pc = "app" =>
        /\ get_game_result(board) # Win(player)
        /\ game_state # GS_GameOver(Win(player))

\* a game played to its end against the search: the human's fifth placement
\* filled the board
C1_Witness ==
    /\ pc = "app"
    /\ ComputerCall
    /\ is_full(board)
    /\ game_state = GS_GameOver(Draw)

-----------------------------------------------------------------------------
(* C2 *)

\* C2: for every board classified Playing and either mark as perspective,
\* every value the root call get_best_move(board, mark, true, 0, empty map)
\* can return is an index in 0..8 whose cell on the input board is None.
C2_ReturnsEmptyCell ==
    (RootMaxCall /\ get_game_result(call.board) = Playing) =>
        \A v \in call.values : v \in Cells /\ call.board[v] = None

\* a root call on a Playing board that still has occupied and empty cells,
\* with more than one value to choose from
C2_Witness ==
    /\ RootMaxCall
    /\ get_game_result(call.board) = Playing
    /\ Cardinality(call.values) >= 2
    /\ call.value \in call.values
    /\ Count(call.board, None) < MaxEmpty

-----------------------------------------------------------------------------
(* C3 *)

\* the score of the child of b reached by placing p at empty cell i: the value
\* of the recursive call the maximizing root makes for i
ChildScores(b, p) ==
    {<<i, search_value([b EXCEPT ![i] = p], p, FALSE, 1)>> : i \in EmptyCells(b)}

\* the empty indices of b whose child score is the maximum child score
OptimalIndices(b, p) ==
    LET scores == ChildScores(b, p)
    IN {x[1] : x \in {y \in scores : \A z \in scores : y[2] >= z[2]}}

\* C3: the tie-break stays optimal.  For every board classified Playing, the
\* set of values the maximizing root call can return is exactly the set of
\* empty indices whose child score equals the maximum child score.
C3_TieBreakOptimal ==
    (RootMaxCall /\ get_game_result(call.board) = Playing) =>
        call.values = OptimalIndices(call.board, call.player)

\* a root call with several optimal indices and at least one empty cell that
\* is not optimal
C3_Witness ==
    /\ RootMaxCall
    /\ get_game_result(call.board) = Playing
    /\ Cardinality(call.values) >= 2
    /\ EmptyCells(call.board) \ call.values # {}

-----------------------------------------------------------------------------
(* C4 *)

\* after p is placed on the empty cell c of b, the opponent has no single
\* placement that completes a line
SafeCell(b, p, c) ==
    /\ c \in Cells
    /\ b[c] = None
    /\ LET b_2 == [b EXCEPT ![c] = p]
       IN \A e \in Cells : ~CompletesLine(b_2, get_opponent(p), e)

\* the automated player's turn in Spec: play_as_computer invoked the search on
\* a board classified Playing
ComputerTurn ==
    /\ pc = "app"
    /\ ComputerCall
    /\ call.searched
    /\ get_game_result(call.board) = Playing

\* C4 as claimed: whenever the automated player is to move and some empty cell
\* is safe (after it the opponent has no single placement that completes a
\* line), the returned index is a safe cell.
C4_Original ==
    (ComputerTurn /\ \E c \in Cells : SafeCell(call.board, get_opponent(player), c)) =>
        SafeCell(call.board, get_opponent(player), call.value)

\* C4 as amended: whenever the automated player is to move and some empty cell
\* is safe, the returned index is a safe cell or a cell that completes a line
\* for the automated player (the game ends there, before the opponent places).
C4_BlocksOrWins ==
    (ComputerTurn /\ \E c \in Cells : SafeCell(call.board, get_opponent(player), c)) =>
        \/ SafeCell(call.board, get_opponent(player), call.value)
        \/ /\ call.value \in Cells
           /\ CompletesLine(call.board, get_opponent(player), call.value)

\* the automated player had to block: the opponent threatened a line, the
\* automated player had no winning cell, and the returned cell is safe
C4_Witness ==
    /\ ComputerTurn
    /\ \E e \in Cells : CompletesLine(call.board, player, e)
    /\ \A c \in Cells : ~CompletesLine(call.board, get_opponent(player), c)
    /\ SafeCell(call.board, get_opponent(player), call.value)
    /\ \E c \in EmptyCells(call.board) : ~SafeCell(call.board, get_opponent(player), c)

-----------------------------------------------------------------------------
(* C5 *)

\* C5: the fastest win is preferred.  For every board classified Playing, if
\* some empty cell completes a line for the perspective mark, the maximizing
\* root call returns only cells that complete a line for the perspective mark.
C5_ImmediateWin ==
    (/\ RootMaxCall
     /\ get_game_result(call.board) = Playing
     /\ \E c \in Cells : CompletesLine(call.board, call.player, c)) =>
        /\ call.values # {}
        /\ \A v \in call.values : v \in Cells /\ CompletesLine(call.board, call.player, v)

\* a root call with a winning cell, where another empty cell also leads to a
\* forced (slower) win: its child score is positive but below 99
C5_Witness ==
    /\ RootMaxCall
    /\ get_game_result(call.board) = Playing
    /\ CompletesLine(call.board, call.player, call.value)
    /\ \E x \in ChildScores(call.board, call.player) : x[2] > 0 /\ x[2] < 99

-----------------------------------------------------------------------------
(* C6 *)

\* the board [First, Second, Second, Second, First, Empty, Empty, Empty, Empty]
C6_Board(first) ==
    [i \in Cells |-> IF i \in {0, 4} THEN first
                     ELSE IF i \in {1, 2, 3} THEN get_opponent(first)
                     ELSE None]

\* C6: on the board [First, Second, Second, Second, First, Empty, Empty, Empty,
\* Empty] the maximizing root call with perspective First can return index 8
\* and nothing else, whichever mark First is.
C6_ReturnsEight ==
    (RootMaxCall /\ call.board = C6_Board(call.player)) => call.values = {8}

\* the root call on that board has returned 8
C6_Witness ==
    /\ RootMaxCall
    /\ call.board = C6_Board(call.player)
    /\ call.value = 8

-----------------------------------------------------------------------------
(* C7 *)

\* C7 as claimed: for every board that is not full, the depth-0 call returns
\* an index in 0..8.
C7_Original ==
    (RootMaxCall /\ ~is_full(call.board)) =>
        \A v \in call.values : v \in Cells

\* C7 as amended: for every board that is not full, the depth-0 call returns
\* an index in 0..8 if the board is classified Playing; on a board that is
\* already won it returns the heuristic score instead, 100 for a win of the
\* perspective mark and -100 for a win of its opponent.
C7_IndexIffPlaying ==
    (RootMaxCall /\ ~is_full(call.board)) =>
        LET result == get_game_result(call.board) IN
        /\ result # Draw
        /\ result = Playing => (call.values # {} /\ \A v \in call.values : v \in Cells)
        /\ result = Win(call.player) => call.values = {100}
        /\ result = Win(get_opponent(call.player)) => call.values = {-100}

\* a root call on a board that is won by the opponent and not full
C7_Witness ==
    /\ RootMaxCall
    /\ ~is_full(call.board)
    /\ get_game_result(call.board) = Win(get_opponent(call.player))
    /\ call.value = -100

-----------------------------------------------------------------------------
(* C8 *)

\* C8: the caller guard.  When the board is full at the time play_as_computer
\* runs, the search is not invoked and the board is left unchanged.
C8_FullBoardGuard ==
    (pc = "app" /\ ComputerCall /\ is_full(call.board)) =>
        /\ ~call.searched
        /\ board = call.board
        /\ ~panicked

\* the human's placement filled the last cell and play_as_computer ran
C8_Witness ==
    /\ pc = "app"
    /\ ComputerCall
    /\ is_full(call.board)
    /\ call.board[selected_index] = player

-----------------------------------------------------------------------------
(* C9 *)

\* C9: play_as_computer writes the automated mark into board[v] only when the
\* value v returned by the root search is a valid index (0..8); every other
\* returned value is rejected by the bound check: the board is left unchanged
\* and no out-of-range access (panic) happens.
C9_BoundCheck ==
    (pc = "search_done" /\ ComputerCall /\ call.searched) =>
        /\ ~panicked
        /\ IF call.value \in Cells
           THEN board = [call.board EXCEPT ![call.value] = get_opponent(player)]
           ELSE board = call.board

\* play_as_computer ran the search on a board the human had already won: the
\* search returned -100 and the board was left as it was
C9_Witness ==
    /\ pc = "search_done"
    /\ ComputerCall
    /\ call.searched
    /\ call.value = -100
    /\ board = call.board

-----------------------------------------------------------------------------
(* C10 *)

\* the step was a call of get_game_result
ResultCall == pc = "rules_done" /\ call.fn = "get_game_result"

\* C10 as claimed: for every board in which a mark m occupies all three cells
\* of at least one line, get_game_result returns Win(m).
C10_Original ==
    ResultCall =>
        \A m \in Marks : HoldsLine(call.board, m) => call.result = Win(m)

\* C10 as amended: for every board in which a mark m occupies all three cells
\* of at least one line and the other mark holds no line, get_game_result
\* returns Win(m), whether or not the board still has empty cells.
C10_WinOfTheLineHolder ==
    ResultCall =>
        \A m \in Marks :
            (HoldsLine(call.board, m) /\ ~HoldsLine(call.board, get_opponent(m))) =>
                call.result = Win(m)

\* get_game_result returned Win(m) on a board with a line of m and empty cells
C10_Witness ==
    /\ ResultCall
    /\ \E m \in Marks : HoldsLine(call.board, m) /\ call.result = Win(m)
    /\ EmptyCells(call.board) # {}

-----------------------------------------------------------------------------
(* C11 *)

\* C11: for every full board (no None cell) on which none of the 8 lines is
\* held by a single mark, get_game_result returns Draw; and Draw is returned
\* for no other board.
C11_DrawIffFullNoLine ==
    ResultCall =>
        (call.result = Draw <=>
            /\ EmptyCells(call.board) = {}
            /\ \A m \in Marks : ~HoldsLine(call.board, m))

\* get_game_result returned Draw
C11_Witness ==
    /\ ResultCall
    /\ call.result = Draw
    /\ EmptyCells(call.board) = {}

-----------------------------------------------------------------------------
(* C12 *)

\* the board has exactly one None cell and no completed line
OneEmptyNoLine(b) ==
    /\ Cardinality(EmptyCells(b)) = 1
    /\ \A m \in Marks : ~HoldsLine(b, m)

\* C12: for every board with exactly one None cell and no completed line,
\* get_available_moves returns the one-element sequence holding that cell's
\* index and get_game_result returns Playing.
C12_LastCell ==
    (pc = "rules_done" /\ OneEmptyNoLine(call.board)) =>
        /\ call.fn = "get_available_moves" =>
              \E i \in EmptyCells(call.board) : call.result = <<i>>
        /\ call.fn = "get_game_result" => call.result = Playing

\* get_available_moves returned one index on a board with one None cell and
\* no completed line
C12_Witness ==
    /\ pc = "rules_done"
    /\ call.fn = "get_available_moves"
    /\ OneEmptyNoLine(call.board)
    /\ Len(call.result) = 1

-----------------------------------------------------------------------------
(* C13 *)

\* the step was a call of get_available_moves
MovesCall == pc = "rules_done" /\ call.fn = "get_available_moves"

\* C13: for every board, get_available_moves returns exactly the indices of
\* the None cells, each once, in strictly ascending order; the result is the
\* empty sequence if and only if is_full(board) is true.
C13_AvailableMoves ==
    MovesCall =>
        /\ Range(call.result) = EmptyCells(call.board)
        /\ Len(call.result) = Cardinality(EmptyCells(call.board))
        /\ \A k \in 1 .. (Len(call.result) - 1) : call.result[k] < call.result[k + 1]
        /\ (call.result = << >>) <=> is_full(call.board)

\* get_available_moves returned several indices on a board that also has
\* occupied cells
C13_Witness ==
    /\ MovesCall
    /\ Len(call.result) >= 3
    /\ Len(call.result) < Cardinality(Cells)

-----------------------------------------------------------------------------
(* C19 *)

\* the 8 lines in the order rows 0-1-2, 3-4-5, 6-7-8, columns 0-3-6, 1-4-7,
\* 2-5-8, diagonals 0-4-8, 2-4-6
LineOrder ==
    <<{0, 1, 2}, {3, 4, 5}, {6, 7, 8}, {0, 3, 6}, {1, 4, 7}, {2, 5, 8}, {0, 4, 8}, {2, 4, 6}>>

\* line number k of LineOrder is held by mark m on b
HoldsLineNo(b, k, m) == \A i \in LineOrder[k] : b[i] = m

\* the mark holding the first complete line of b in LineOrder (None if no line
\* is complete)
FirstLineMark(b) ==
    LET held == {k \in 1 .. Len(LineOrder) : \E m \in Marks : HoldsLineNo(b, k, m)}
    IN IF held = {} THEN None
       ELSE LET first == CHOOSE k \in held : \A j \in held : k <= j
            IN CHOOSE m \in Marks : HoldsLineNo(b, first, m)

\* C19: line priority.  On a board where lines of both marks are complete at
\* once, get_game_result returns the win of the first complete line in the
\* fixed order; on no board does it return Win(None).
C19_LinePriority ==
    ResultCall =>
        /\ (HoldsLine(call.board, X) /\ HoldsLine(call.board, O)) =>
              call.result = Win(FirstLineMark(call.board))
        /\ call.result # Win(None)

\* get_game_result on a board with lines of both marks, where the first
\* complete line is not the top row
C19_Witness ==
    /\ ResultCall
    /\ HoldsLine(call.board, X)
    /\ HoldsLine(call.board, O)
    /\ \A m \in Marks : ~HoldsLineNo(call.board, 1, m)
    /\ call.result = Win(FirstLineMark(call.board))

-----------------------------------------------------------------------------
(* C14 *)

\* C14: terminal scoring.  A call of get_best_move on a board whose
\* classification is not Playing, at any depth d >= 0 and with either value of
\* is_maximizing, returns 100 - d when the classification is Win(perspective),
\* -100 + d when it is Win(opponent of the perspective) and 0 when it is Draw,
\* and it changes neither the caller's board, nor a board_2 of a call in
\* progress, nor the scratch map.
C14_TerminalScoring ==
    [][WalkTerminal =>
          LET n == Len(stack)
              top == stack[n]
              result == get_game_result(FrameBoard(n))
          IN result # Playing =>
                /\ top.depth >= 0
                /\ call'.ret.value =
                      IF result = Win(top.player) THEN 100 - top.depth
                      ELSE IF result = Win(get_opponent(top.player)) THEN -100 + top.depth
                      ELSE 0
                /\ result \notin {Win(X), Win(O)} => result = Draw
                /\ board' = board
                /\ \A i \in 1 .. (n - 1) : stack'[i].board_2 = stack[i].board_2
                /\ scratch_map' = scratch_map]_vars

\* a call at depth 2 or more returned -100 + depth on a board won by the
\* opponent of the perspective, while the map already held entries
C14_Witness ==
    /\ pc = "walk"
    /\ call.ret.kind = "terminal"
    /\ call.ret.depth >= 2
    /\ get_game_result(call.ret.board) = Win(get_opponent(call.ret.player))
    /\ call.ret.value = -100 + call.ret.depth
    /\ scratch_map # EmptyMap

-----------------------------------------------------------------------------
(* C15 *)

\* C15: the search never mutates the board it is given.  While the root call
\* runs and after it has returned, the caller's board is the board handed to
\* the root call; and for every call in progress that has made a recursive
\* call (running or just returned), the board it was given is intact: its
\* board_2 is that board with the one mark of the current loop index, which
\* is the i-th mark placed on a clone since the root board.
C15_BoardNotMutated ==
    pc \in {"walk", "walk_done"} =>
        /\ board = call.board
        /\ \A i \in 1 .. Len(stack) :
              (i < Len(stack) \/ stack[i].at = "returned") =>
                 /\ stack[i].board_2 =
                       child_board(FrameBoard(i), stack[i].player, stack[i].is_maximizing,
                                   stack[i].moves[stack[i].k])
                 /\ Cardinality(EmptyCells(stack[i].board_2)) =
                       Cardinality(EmptyCells(call.board)) - i
                 /\ \A c \in Cells : call.board[c] # None => stack[i].board_2[c] = call.board[c]

\* a recursive call that ran its own loop has returned its best to a caller
\* that is itself a recursive call
C15_Witness ==
    /\ pc = "walk"
    /\ Len(stack) >= 2
    /\ stack[Len(stack)].at = "returned"
    /\ call.ret.kind = "best"
    /\ board = call.board
    /\ Cardinality(EmptyCells(board)) >= 3

-----------------------------------------------------------------------------
(* C16 *)

\* the cells whose content differs between the two states of a step
ChangedCells == {i \in Cells : board'[i] # board[i]}

\* C16: within one game (between two board resets by 's' or 'r') a cell that
\* holds X or O is never changed again: a key event that is not a reset
\* changes at most two cells, each of them from None to a mark.
C16_MarksStay ==
    [][\/ KeyS
       \/ KeyR
       \/ /\ Cardinality(ChangedCells) <= 2
          /\ \A i \in ChangedCells : board[i] = None /\ board'[i] \in Marks]_vars

\* an Enter that placed the human's mark and the automated mark on a board that
\* already held marks
C16_Witness ==
    /\ ComputerCall
    /\ call.searched
    /\ Cardinality(EmptyCells(call.board)) <= 6
    /\ Cardinality(EmptyCells(board)) = Cardinality(EmptyCells(call.board)) - 1
    /\ \A i \in Cells : call.board[i] # None => board[i] = call.board[i]

-----------------------------------------------------------------------------
(* C17 *)

\* no field of App changes in the step
AppUnchanged == UNCHANGED <<player, game_state, selected_index, board, exit>>

\* C17: restart and reselect.  In Playing or GameOver, 'r' leaves game_state =
\* Playing, all cells None and selected_index = 0; 's' leaves game_state =
\* SelectPlayer, all cells None and selected_index = 0; both leave the human's
\* mark unchanged; in SelectPlayer both keys change nothing.
C17_RestartReselect ==
    [][/\ KeyR =>
            IF game_state = GS_Playing \/ IsGameOver(game_state)
            THEN /\ game_state' = GS_Playing
                 /\ board' = get_empty_board
                 /\ selected_index' = 0
                 /\ player' = player
            ELSE game_state = GS_SelectPlayer /\ AppUnchanged
       /\ KeyS =>
            IF game_state = GS_Playing \/ IsGameOver(game_state)
            THEN /\ game_state' = GS_SelectPlayer
                 /\ board' = get_empty_board
                 /\ selected_index' = 0
                 /\ player' = player
            ELSE game_state = GS_SelectPlayer /\ AppUnchanged]_vars

\* a finished game of the human playing X with the cursor away from cell 0,
\* where 'r' and 's' both have something to reset
C17_Witness ==
    /\ pc = "app"
    /\ IsGameOver(game_state)
    /\ player = X
    /\ selected_index # 0
    /\ board # get_empty_board
    /\ ~exit

-----------------------------------------------------------------------------
(* C18 *)

\* the step was the pair of root calls on a board and on its rotation
RotatedCall == pc = "rotation_done" /\ call.fn = "get_best_move_rotated"

\* the largest key of a score -> indices map: the best child score of the root
\* that filled it
MaxKey(nodes_map) == CHOOSE k \in DOMAIN nodes_map : \A j \in DOMAIN nodes_map : k >= j

\* C18: rotation symmetry.  For every board classified Playing and its rotation
\* by 90 degrees, the best root score (the maximum child score) is the same for
\* both, and the set of indices holding that score on the rotated board (the
\* indices its root can return) is the image under the rotation of that set of
\* the original.
C18_RotationSymmetry ==
    (RotatedCall /\ get_game_result(call.board) = Playing) =>
        /\ get_game_result(call.rotated_board) = Playing
        /\ DOMAIN call.nodes_map # {}
        /\ DOMAIN call.rotated_nodes_map # {}
        /\ MaxKey(call.rotated_nodes_map) = MaxKey(call.nodes_map)
        /\ Range(call.rotated_nodes_map[MaxKey(call.rotated_nodes_map)]) =
              {RotateIndex(i) : i \in Range(call.nodes_map[MaxKey(call.nodes_map)])}
        /\ call.rotated_values = {RotateIndex(i) : i \in call.values}

\* a Playing board that differs from its rotation, with several optimal
\* indices that the rotation moves
C18_Witness ==
    /\ RotatedCall
    /\ get_game_result(call.board) = Playing
    /\ call.rotated_board # call.board
    /\ Cardinality(call.values) >= 2
    /\ call.rotated_values # call.values
    /\ call.rotated_values = {RotateIndex(i) : i \in call.values}

-----------------------------------------------------------------------------
(* C20 *)

\* the loop of the root call is over and the lookup of best is next
RootLoopOver ==
    /\ pc = "walk"
    /\ Len(stack) = 1
    /\ stack[1].at = "loop"
    /\ stack[1].k > Len(stack[1].moves)

\* C20: the root lookup never fails.  For every board classified Playing,
\* after the root loop the scratch map (started empty) contains the key equal
\* to the final best and its list is non-empty; every child score lies in
\* -99..99 and so best is no longer the initial -100 (maximizing) or 100
\* (minimizing); the unwrap at the root does not panic.
C20_RootLookup ==
    /\ pc \in {"walk", "walk_done"} => ~panicked
    /\ RootLoopOver =>
          /\ get_game_result(board) = Playing
          /\ stack[1].best \in DOMAIN scratch_map
          /\ Len(scratch_map[stack[1].best]) >= 1
          /\ DOMAIN scratch_map \subseteq -99 .. 99
          /\ stack[1].best # (IF stack[1].is_maximizing THEN -100 ELSE 100)

\* the loop of a minimizing root over three moves is over
C20_Witness ==
    /\ RootLoopOver
    /\ ~stack[1].is_maximizing
    /\ Len(stack[1].moves) = 3
    /\ stack[1].best \in DOMAIN scratch_map

-----------------------------------------------------------------------------
(* The walk and the search operators agree *)

\* the root call of the walk has returned
WalkDone == pc = "walk_done" /\ stack = << >> /\ ~panicked

\* the walk returns one of the values of get_best_move and leaves the map of
\* get_best_move
WalkAgrees ==
    WalkDone =>
        LET r == get_best_move(call.board, call.player, call.is_maximizing, 0, EmptyMap)
        IN call.ret.value \in r[1] /\ scratch_map = r[2]

-----------------------------------------------------------------------------
(* C21 *)

\* the indices held by the lists of a score -> indices map
MapIndices(m) == UNION {Range(m[key]) : key \in DOMAIN m}

\* the number of list entries of a score -> indices map
MapEntries(m) ==
    Cardinality({e \in (DOMAIN m) \X (1 .. Cardinality(Cells)) : e[2] <= Len(m[e[1]])})

\* every list of the map is in strictly ascending order
MapAscending(m) ==
    \A key \in DOMAIN m : \A j \in 1 .. (Len(m[key]) - 1) : m[key][j] < m[key][j + 1]

\* the score of the child of the root board reached through empty cell i, for
\* the root call recorded in call
RootChildScore(i) ==
    search_value(child_board(call.board, call.player, call.is_maximizing, i),
                 call.player, ~call.is_maximizing, 1)

\* C21: scratch map content.  After a root call on a Playing board with an
\* initially empty map, the keys of the map are exactly the distinct child
\* scores of the root, the list under a key holds the moves with that score,
\* the lists together hold every available move of the root board exactly
\* once, and each list is in ascending index order.  Calls at depth > 0 never
\* insert: while the walk runs the map holds exactly the moves whose pass of
\* the root loop is complete, each once.
C21_ScratchMap ==
    /\ (pc = "walk" /\ stack # << >>) =>
          LET root == stack[1]
              complete == IF root.at = "entry" THEN 0 ELSE root.k - 1
          IN /\ MapIndices(scratch_map) = {root.moves[j] : j \in 1 .. complete}
             /\ MapEntries(scratch_map) = complete
             /\ MapAscending(scratch_map)
    /\ (WalkDone /\ get_game_result(call.board) = Playing) =>
          /\ DOMAIN scratch_map = {RootChildScore(i) : i \in EmptyCells(call.board)}
          /\ \A key \in DOMAIN scratch_map :
                Range(scratch_map[key]) =
                   {i \in EmptyCells(call.board) : RootChildScore(i) = key}
          /\ MapIndices(scratch_map) = Range(get_available_moves(call.board))
          /\ MapEntries(scratch_map) = Len(get_available_moves(call.board))
          /\ MapAscending(scratch_map)

\* a root call has returned leaving a map with two keys or more, one of them
\* shared by several moves
C21_Witness ==
    /\ WalkDone
    /\ get_game_result(call.board) = Playing
    /\ Cardinality(DOMAIN scratch_map) >= 2
    /\ \E key \in DOMAIN scratch_map : Len(scratch_map[key]) >= 2
    /\ MapEntries(scratch_map) = Cardinality(EmptyCells(call.board))

-----------------------------------------------------------------------------
(* C22 *)

\* the number of empty cells of the board handed to the root call
RootEmpty == Cardinality(EmptyCells(call.board))

\* every call in progress is one level deeper than its caller and was given a
\* board with one empty cell fewer; no depth exceeds the number of empty cells
\* of the root board, and none is the sentinel max_depth
DepthsBounded ==
    pc = "walk" =>
        \A i \in 1 .. Len(stack) :
            /\ stack[i].depth = i - 1
            /\ Cardinality(EmptyCells(FrameBoard(i))) = RootEmpty - (i - 1)
            /\ stack[i].depth <= RootEmpty
            /\ stack[i].depth <= Cardinality(Cells)
            /\ stack[i].depth # max_depth

\* C22: the search terminates with bounded depth.  In every call tree started
\* at depth 0, each recursive call has depth one greater than its parent and
\* exactly one fewer empty cell, depth never exceeds the number of empty cells
\* of the root board (at most 9) and is never -1, and the root call returns.
C22_TerminatesBounded == []DepthsBounded /\ <>(pc = "walk_done")

\* a call in progress at the deepest level a board with three empty cells
\* allows, on a full board
C22_Witness ==
    /\ pc = "walk"
    /\ Len(stack) = 4
    /\ stack[4].depth = 3
    /\ RootEmpty = 3
    /\ EmptyCells(FrameBoard(4)) = {}

-----------------------------------------------------------------------------
(* C23 *)

\* the classifier of get_game_result with the is_empty early return taken out:
\* the eight line tests in order, then is_full
ClassifyNoEarlyReturn(b) ==
    IF LineHeld(b, 0, 1, 2) THEN Win(b[0])
    ELSE IF LineHeld(b, 3, 4, 5) THEN Win(b[3])
    ELSE IF LineHeld(b, 6, 7, 8) THEN Win(b[6])
    ELSE IF LineHeld(b, 0, 3, 6) THEN Win(b[0])
    ELSE IF LineHeld(b, 1, 4, 7) THEN Win(b[1])
    ELSE IF LineHeld(b, 2, 5, 8) THEN Win(b[2])
    ELSE IF LineHeld(b, 0, 4, 8) THEN Win(b[0])
    ELSE IF LineHeld(b, 2, 4, 6) THEN Win(b[2])
    ELSE IF is_full(b) THEN Draw
    ELSE Playing

\* C23: the all-None board is classified Playing, and the is_empty early
\* return of get_game_result is redundant: the classifier without it gives the
\* same outcome as get_game_result on every board.
C23_EarlyReturnRedundant ==
    ResultCall =>
        /\ call.board = get_empty_board => call.result = Playing
        /\ call.result = ClassifyNoEarlyReturn(call.board)

\* get_game_result took the early return: the board is all None
C23_Witness ==
    /\ ResultCall
    /\ call.board = get_empty_board
    /\ is_empty(call.board)
    /\ call.result = Playing

-----------------------------------------------------------------------------
(* C24 *)

\* the step was the pair of root calls, minimizing for p and maximizing for
\* the opponent of p
BothSidesCall == pc = "mirror_done" /\ call.fn = "get_best_move_both_sides"

\* the smallest key of a score -> indices map: the best child score of the
\* minimizing root that filled it
MinKey(nodes_map) == CHOOSE k \in DOMAIN nodes_map : \A j \in DOMAIN nodes_map : k <= j

\* C24: the minimizing root equals the maximizing root of the other side.  For
\* every board classified Playing and mark p, the set of indices that
\* get_best_move(board, p, false, 0, empty map) can return equals the set that
\* get_best_move(board, opponent(p), true, 0, empty map) can return, and the
\* two best scores are negations of each other.
C24_MinRootIsMaxRoot ==
    (BothSidesCall /\ get_game_result(call.board) = Playing) =>
        /\ call.max_player = get_opponent(call.min_player)
        /\ call.min_values # {}
        /\ call.min_values = call.max_values
        /\ DOMAIN call.min_nodes_map # {}
        /\ DOMAIN call.max_nodes_map # {}
        /\ MinKey(call.min_nodes_map) = 0 - MaxKey(call.max_nodes_map)

\* a Playing board with moves of different scores, where the best score is
\* not 0 and the two roots agree on the indices
C24_Witness ==
    /\ BothSidesCall
    /\ get_game_result(call.board) = Playing
    /\ Cardinality(DOMAIN call.min_nodes_map) >= 2
    /\ MinKey(call.min_nodes_map) < 0
    /\ MaxKey(call.max_nodes_map) = 0 - MinKey(call.min_nodes_map)
    /\ call.min_values = call.max_values
    /\ Cardinality(call.min_values) < Cardinality(EmptyCells(call.board))

-----------------------------------------------------------------------------
(* C25 *)

\* C25: game_state agrees with the board after every key event.  game_state =
\* GameOver(r) implies get_game_result(board) = r and r is not Playing;
\* game_state = Playing implies get_game_result(board) = Playing; game_state =
\* SelectPlayer implies that all 9 cells are None.
C25_StateAgreesWithBoard ==
    pc = "app" =>
        /\ IsGameOver(game_state) =>
              /\ game_state = GS_GameOver(get_game_result(board))
              /\ get_game_result(board) # Playing
        /\ game_state = GS_Playing => get_game_result(board) = Playing
        /\ game_state = GS_SelectPlayer => \A i \in Cells : board[i] = None

\* the human's fifth mark filled the board without a line: GameOver(Draw)
C25_Witness ==
    /\ pc = "app"
    /\ game_state = GS_GameOver(Draw)
    /\ EmptyCells(board) = {}
    /\ get_game_result(board) = Draw

-----------------------------------------------------------------------------
(* C26 *)

\* the number of cells holding the human's mark minus the number holding the
\* automated mark
TurnBalance == Count(board, player) - Count(board, get_opponent(player))

\* C26: turn balance.  After every key event the human has as many marks as
\* the automated player whenever game_state is Playing or SelectPlayer, and as
\* many or one more whenever game_state is GameOver; the automated player
\* never has more marks than the human.
C26_TurnBalance ==
    pc = "app" =>
        /\ game_state \in {GS_Playing, GS_SelectPlayer} => TurnBalance = 0
        /\ IsGameOver(game_state) => TurnBalance \in {0, 1}
        /\ Count(board, get_opponent(player)) <= Count(board, player)

\* a game that ended on the automated player's third mark: three marks each
C26_Witness ==
    /\ pc = "app"
    /\ game_state = GS_GameOver(Win(get_opponent(player)))
    /\ Count(board, player) = 3
    /\ TurnBalance = 0

-----------------------------------------------------------------------------
(* C27 *)

\* the human placements since the last board reset: a reset empties the board,
\* every placement adds one mark of the human's, and no mark is removed or
\* replaced in between
HumanPlacements == Count(board, player)

\* C27: every game ends.  Counted from the last board reset, game_state is
\* GameOver after at most 5 human placements, so a sixth placement in the same
\* game is never possible.
C27_GameEnds ==
    pc = "app" =>
        /\ HumanPlacements <= 5
        /\ HumanPlacements = 5 => IsGameOver(game_state)
        /\ (game_state = GS_Playing /\ \E i \in Cells : board[i] = None) =>
              HumanPlacements <= 4

\* a game that took all five placements of the human
C27_Witness ==
    /\ pc = "app"
    /\ HumanPlacements = 5
    /\ IsGameOver(game_state)
    /\ call.fn = "play_as_computer"

-----------------------------------------------------------------------------
(* C28 *)

\* C28: GameOver freezes play.  While game_state is GameOver, the keys Enter,
\* Left, Right, Up and Down leave board, selected_index, player and game_state
\* unchanged and do not invoke the search; a step that changes a field of App
\* is a step of 'r', 's' or 'q', and these do change one: 'r' leaves Playing,
\* 's' leaves SelectPlayer, 'q' sets exit.
C28_GameOverFreezes ==
    [][IsGameOver(game_state) =>
          /\ (KeyEnter \/ KeyLeft \/ KeyRight \/ KeyUp \/ KeyDown) =>
                /\ UNCHANGED <<board, selected_index, player, game_state>>
                /\ call'.fn # "play_as_computer"
          /\ ~AppUnchanged => (KeyR \/ KeyS \/ KeyQ)
          /\ KeyR => game_state' = GS_Playing
          /\ KeyS => game_state' = GS_SelectPlayer
          /\ KeyQ => exit' /\ ~exit]_vars

\* a key event was handled in GameOver without leaving it: the cursor is off
\* cell 0 and the last event made no call
C28_Witness ==
    /\ pc = "app"
    /\ IsGameOver(game_state)
    /\ call = NoCall
    /\ ~exit
    /\ selected_index # 0

-----------------------------------------------------------------------------
(* C29 *)

\* C29: whenever play_as_computer invokes the root search, the board it holds
\* (the board after the human's mark) is classified Playing and has a None
\* cell, the search returns the index of a None cell, and that cell receives
\* the automated mark; after a human placement that neither fills the board
\* nor ends the game the search is invoked and exactly one automated mark is
\* placed; otherwise none is.
C29_SearchOnPlayingBoards ==
    (pc = "app" /\ ComputerCall) =>
        /\ ~panicked
        /\ call.searched =>
              /\ get_game_result(call.board) = Playing
              /\ EmptyCells(call.board) # {}
              /\ call.value \in EmptyCells(call.board)
              /\ board = [call.board EXCEPT ![call.value] = get_opponent(player)]
        /\ (EmptyCells(call.board) # {} /\ get_game_result(call.board) = Playing) =>
              /\ call.searched
              /\ Cardinality({i \in Cells : board[i] # call.board[i]}) = 1
        /\ ~call.searched => board = call.board

\* the search was invoked late in a game, on a board with two None cells
C29_Witness ==
    /\ pc = "app"
    /\ ComputerCall
    /\ call.searched
    /\ Cardinality(EmptyCells(call.board)) = 2
    /\ get_game_result(call.board) = Playing
    /\ call.value \in EmptyCells(call.board)

-----------------------------------------------------------------------------
(* C30 *)

\* C30: the cursor stays on the board.  selected_index is in 0..8 after every
\* sequence of key events; in Playing, Left and Right never change the
\* cursor's row (index / 3) and stop at the row's ends, and Up and Down never
\* change its column (index % 3) and stop at the column's ends.
C30_CursorOnBoard ==
    /\ selected_index \in Cells
    /\ [][/\ selected_index' \in Cells
          /\ game_state = GS_Playing =>
                /\ KeyLeft =>
                      /\ selected_index' \div BOARD_SIZE = selected_index \div BOARD_SIZE
                      /\ selected_index' <= selected_index
                      /\ selected_index % BOARD_SIZE = 0 => selected_index' = selected_index
                /\ KeyRight =>
                      /\ selected_index' \div BOARD_SIZE = selected_index \div BOARD_SIZE
                      /\ selected_index' >= selected_index
                      /\ selected_index % BOARD_SIZE = BOARD_SIZE - 1 =>
                            selected_index' = selected_index
                /\ KeyUp =>
                      /\ selected_index' % BOARD_SIZE = selected_index % BOARD_SIZE
                      /\ selected_index' <= selected_index
                      /\ selected_index \div BOARD_SIZE = 0 => selected_index' = selected_index
                /\ KeyDown =>
                      /\ selected_index' % BOARD_SIZE = selected_index % BOARD_SIZE
                      /\ selected_index' >= selected_index
                      /\ selected_index \div BOARD_SIZE = BOARD_SIZE - 1 =>
                            selected_index' = selected_index]_vars

\* the cursor in the last cell during play, at the end of its row and of its
\* column
C30_Witness ==
    /\ pc = "app"
    /\ game_state = GS_Playing
    /\ selected_index = BOARD_SIZE * BOARD_SIZE - 1
    /\ call = NoCall

=============================================================================
